---- MODULE Spec2Model ----
(***************************************************************************)
(* A model of the maelstrom node runtimes and services of this repository. *)
(*                                                                         *)
(* Two binaries are modelled as one process each:                          *)
(*   - service = "echo": the runtime of src/message.rs (main_loop,         *)
(*     Message::into_reply) running EchoNode of src/echo.rs;               *)
(*   - service = "broadcast": the runtime of src/node.rs (main_loop)       *)
(*     running BroadcastNode of src/services/broadcast.rs.                 *)
(* The second runtime builds its envelopes with Message::new and a         *)
(* one-argument Message::into_reply, whose code is not among the source    *)
(* files; buildReply, new_message and decode_node model them from the      *)
(* specification (sections 3 and 4.1).                                     *)
(*                                                                         *)
(* An Option<T> is a set with at most one element.  A process runs until   *)
(* its input ends, a line fails to decode, a write to stdout fails or a    *)
(* panic unwinds it.                                                       *)
(***************************************************************************)
EXTENDS Integers, Sequences, FiniteSets, TLC

VARIABLES
    service,    \* which binary this process runs: "echo" or "broadcast"
    state,      \* "AwaitingInit", "Ready" or "Terminated"
    exit,       \* "running", "ok" (end of input), "error" (Err returned) or "panic"
    node,       \* the service's state (BroadcastNode's fields)
    now,        \* the monotonic clock (Instant::now()), in milliseconds
    next_id,    \* the Identifier Generator's counter
    nlines,     \* number of input lines read so far
    lastIn,     \* the line read last
    lastOut,    \* the envelopes written while that line was handled
    prev,       \* history: the service's state before that line was handled
    delivered,  \* history: values carried by the Broadcast and ReadOk lines handled
    bcount,     \* history: per value, how many Broadcast lines carrying it were handled (up to 2)
    ids,        \* history: the msg_id of every envelope written, in write order
    arrived,    \* history: the time at which the line read last was read
    rounds,     \* history: the time at which the broadcast node was created,
                \* then the times of the lines at which it gossiped
    \* A cluster of broadcast processes and the network between them:
    cluster,    \* the BroadcastNode of every process
    net,        \* the envelopes in flight between the processes
    drops,      \* the number of envelopes the network has lost
    lostFwd,    \* history: the nodes a forwarded Broadcast to which was lost
    healed,     \* history: the nodes of lostFwd that then got a new value
                \* from a ReadOk
    watch       \* history of the convergence scenario: the time since the
                \* first line that n3 read with its timer check due, after
                \* the forwarded Broadcast to it was lost

pvars == <<service, state, exit, node, now, next_id, nlines, lastIn, lastOut,
           prev, delivered, bcount, ids, arrived, rounds>>
cvars == <<cluster, net, drops, lostFwd, healed, watch>>
vars == <<pvars, cvars>>

----------------------------------------------------------------------------
(* Bounds of the model *)

\* Number of input lines a process reads (the init line included).
MaxLines == 4
\* The clock runs from 0 to MaxTicks * Tick.
MaxTicks == 4
\* Number of envelopes the network of a cluster loses.
MaxDrops == 1

----------------------------------------------------------------------------
(* Constants of the program and the input alphabet *)

GOSSIP_TIME == 300

Tick == GOSSIP_TIME \div 2
MaxTime == MaxTicks * Tick
\* How long a blocking read of the next line may take, and how long the writes of
\* one gossip round may take.
Waits == {0, GOSSIP_TIME}
Lags == {0, Tick}

None == {}
Some(x) == {x}

Self == "n1"
Peers == {"n2", "n3"}
Client == "c1"
Values == {5, 7}
MsgIds == {None, Some(1), Some(2)}
Services == {"echo", "broadcast"}

Max(S) == CHOOSE x \in S : \A y \in S : y <= x

\* All orders in which the elements of a set can be iterated.
Perms(S) ==
    {s \in [1..Cardinality(S) -> S] : \A i, j \in DOMAIN s : s[i] = s[j] => i = j}

----------------------------------------------------------------------------
(* Envelopes *)

Message(src, dst, id, reply_id, payload) ==
    [src |-> src, dest |-> dst, msg_id |-> id, in_reply_to |-> reply_id,
     payload |-> payload]

InitData(node_id, node_ids) == [type |-> "init", node_id |-> node_id, node_ids |-> node_ids]
InitOk == [type |-> "init_ok"]
Echo(s) == [type |-> "echo", echo |-> s]
EchoOk(s) == [type |-> "echo_ok", echo |-> s]
Read == [type |-> "read"]
ReadOk(messages) == [type |-> "read_ok", messages |-> messages]
Topology(topology) == [type |-> "topology", topology |-> topology]
TopologyOk == [type |-> "topology_ok"]
Broadcast(message) == [type |-> "broadcast", message |-> message]
BroadcastOk == [type |-> "broadcast_ok"]
\* A body with no "type" field, and a line that is no JSON object at all.
Absent == [type |-> "absent"]
Malformed == [type |-> "malformed"]

InitPayloadTypes == {"init", "init_ok"}
EchoPayloadTypes == {"echo", "echo_ok"}
BroadcastPayloadTypes ==
    {"read", "read_ok", "topology", "topology_ok", "broadcast", "broadcast_ok"}

\* A decoder whose payload type also has the variants of InitPayload.
decode_message_lenient(line, types) ==
    line.payload.type \in types \cup InitPayloadTypes

\* serde_json::from_str::<Message<P>> of src/message.rs: the payload is not
\* optional, so the tag must be one of P's variants.
decode_message(line, types) == line.payload.type \in types

\* serde_json::from_str::<Message<P>> of the second runtime: the payload is an
\* Option, a body without a tag decodes to None.
decode_node(line, types) == line.payload.type \in types \cup {"absent"}

\* A reply that keeps the request's source and destination.
Message_into_reply_noswap(self, id) ==
    [self EXCEPT !.msg_id = {sid + 1 : sid \in self.msg_id},
                 !.in_reply_to = id]

\* Message::into_reply of src/message.rs.
Message_into_reply(self, id) ==
    [self EXCEPT !.src = self.dest,
                 !.dest = self.src,
                 !.msg_id = {sid + 1 : sid \in self.msg_id},
                 !.in_reply_to = id]

\* Message::new of the second runtime: a fresh envelope whose id is taken from
\* the Identifier Generator.
new_message(src, dst, reply_id, payload, id) ==
    Message(src, dst, Some(id), reply_id, payload)

\* The one-argument Message::into_reply of the second runtime.
buildReply(request, replyPayload, id) ==
    new_message(request.dest, request.src, request.msg_id, replyPayload, id)

----------------------------------------------------------------------------
(* A handler is a sequence of steps: envelopes written to stdout, changes  *)
(* of the service's state, and panics.  A run of the handler executes the  *)
(* steps in order and stops early at a write that fails or at a panic.     *)

Write(env) == [op |-> "write", env |-> env]
Set(n) == [op |-> "set", node |-> n]
Panic == [op |-> "panic"]

Writes(steps) == {i \in DOMAIN steps : steps[i].op = "write"}
Panics(steps) == {i \in DOMAIN steps : steps[i].op = "panic"}

\* Where a run of steps can stop: 0 is the normal end, i > 0 the step that fails.
Stops(steps) ==
    IF Panics(steps) = {}
    THEN {0} \cup Writes(steps)
    ELSE LET p == CHOOSE i \in Panics(steps) : \A j \in Panics(steps) : i <= j
         IN  {p} \cup {i \in Writes(steps) : i < p}

\* The result of running steps from service state n0 and stopping at f.
Exec(steps, n0, f) ==
    LET upto == IF f = 0 THEN Len(steps) ELSE f - 1
        sets == {i \in 1..upto : steps[i].op = "set"}
        ws   == SelectSeq(SubSeq(steps, 1, upto), LAMBDA s : s.op = "write")
    IN  [node |-> IF sets = {} THEN n0 ELSE steps[Max(sets)].node,
         out  |-> [i \in 1..Len(ws) |-> ws[i].env],
         end  |-> IF f = 0 THEN "ok"
                  ELSE IF steps[f].op = "panic" THEN "panic" ELSE "error"]

----------------------------------------------------------------------------
(* The echo service of src/echo.rs *)

EchoNode_from_init(init) == [id |-> init.node_id]

\* EchoNode::step: an Echo is turned into its own reply, an EchoOk is ignored.
EchoNode_step(input) ==
    LET id == input.msg_id
    IN  IF input.payload.type = "echo"
        THEN <<Write(Message_into_reply(
                   [input EXCEPT !.payload = EchoOk(input.payload.echo)], id))>>
        ELSE <<>>

----------------------------------------------------------------------------
(* The broadcast service of src/services/broadcast.rs *)

\* A node that takes the other nodes of the init message as its neighbors.
BroadcastNode_from_init_peers(init, t) ==
    [id |-> init.node_id,
     topology |-> {init.node_ids[i] : i \in DOMAIN init.node_ids} \ {init.node_id},
     seen |-> {},
     gossip_timer |-> t + GOSSIP_TIME]

\* A node whose timer is due from the start.
BroadcastNode_from_init_unarmed(init, t) ==
    [id |-> init.node_id,
     topology |-> {},
     seen |-> {},
     gossip_timer |-> t]

BroadcastNode_from_init(init, t) ==
    [id |-> init.node_id,
     topology |-> {},
     seen |-> {},
     gossip_timer |-> t + GOSSIP_TIME]

\* The reply to msg, or the panic of replying to a message that has no id.
reply(msg, payload, id) ==
    IF msg.msg_id = None THEN <<Panic>> ELSE <<Write(buildReply(msg, payload, id))>>

\* A gossip that arms the timer anew before it looks at it.
BroadcastNode_gossip_rearm_first(n, t1, t2, ord, id) ==
    <<Set([n EXCEPT !.gossip_timer = t2 + GOSSIP_TIME])>>

\* BroadcastNode::gossip at time t1; t2 is the time after the Reads were sent;
\* ord is the order in which the HashSet of neighbors is iterated.
BroadcastNode_gossip(n, t1, t2, ord, id) ==
    IF n.gossip_timer > t1
    THEN <<>>
    ELSE [i \in 1..Len(ord) |->
              Write(new_message(n.id, ord[i], None, Read, id + i - 1))]
         \o <<Set([n EXCEPT !.gossip_timer = t2 + GOSSIP_TIME])>>

\* A ReadOk arm that drops the received values.
seen_extend_ignore(seen, messages) == seen

\* A merge that replaces the set by the received one.
seen_extend_replace(seen, messages) == messages

\* self.seen.extend(data.messages.iter())
seen_extend(seen, messages) == seen \cup messages

\* An insert that reports every value as new.
seen_insert_always_fresh(seen, message) == [set |-> seen \cup {message}, fresh |-> TRUE]

\* self.seen.insert(data.message): the new set, and whether the value was new.
seen_insert(seen, message) == [set |-> seen \cup {message}, fresh |-> message \notin seen]

\* A Topology arm that adds the node's own entry to its neighbors.
set_topology_merge(n, topology) ==
    IF n.id \in DOMAIN topology
    THEN <<Set([n EXCEPT !.topology = @ \cup topology[n.id]])>>
    ELSE <<>>

\* The Topology arm: the node's own entry replaces its neighbors.
set_topology(n, topology) ==
    IF n.id \in DOMAIN topology
    THEN <<Set([n EXCEPT !.topology = topology[n.id]])>>
    ELSE <<>>

\* A Broadcast arm that floods without looking at the result of the insert.
flood_always(n, message, ord, id) ==
    <<Set([n EXCEPT !.seen = @ \cup {message}])>>
    \o [i \in 1..Len(ord) |->
            Write(new_message(n.id, ord[i], None, Broadcast(message), id + i - 1))]

\* The Broadcast arm after the reply: store the value, flood it if it is new.
flood(n, message, ord, id) ==
    LET ins == seen_insert(n.seen, message)
    IN  <<Set([n EXCEPT !.seen = ins.set])>>
        \o (IF ins.fresh
            THEN [i \in 1..Len(ord) |->
                      Write(new_message(n.id, ord[i], None, Broadcast(message),
                                        id + i - 1))]
            ELSE <<>>)

\* A match that takes a BroadcastOk as the sign that the neighbor is alive
\* and sends it again what the node has seen.
dispatch_ack_resends(n, msg, ord, id) ==
    LET p == msg.payload
    IN  CASE p.type = "absent" -> <<>>
          [] p.type = "topology_ok" -> <<>>
          [] p.type = "broadcast_ok" ->
                IF n.seen = {}
                THEN <<>>
                ELSE <<Write(new_message(n.id, msg.src, None,
                                         Broadcast(CHOOSE v \in n.seen : TRUE), id))>>
          [] p.type = "read_ok" ->
                <<Set([n EXCEPT !.seen = seen_extend(n.seen, p.messages)])>>
          [] p.type = "topology" ->
                set_topology(n, p.topology) \o reply(msg, TopologyOk, id)
          [] p.type = "read" -> reply(msg, ReadOk(n.seen), id)
          [] p.type = "broadcast" ->
                reply(msg, BroadcastOk, id) \o flood(n, p.message, ord, id + 1)

\* A match whose ReadOk arm floods the values it learns.
dispatch_read_ok_flooding(n, msg, ord, id) ==
    LET p == msg.payload
    IN  CASE p.type = "absent" -> <<>>
          [] p.type \in {"topology_ok", "broadcast_ok"} -> <<>>
          [] p.type = "read_ok" ->
                IF p.messages \subseteq n.seen
                THEN <<>>
                ELSE flood(n, CHOOSE v \in p.messages : v \notin n.seen, ord, id)
                     \o <<Set([n EXCEPT !.seen = seen_extend(n.seen, p.messages)])>>
          [] p.type = "topology" ->
                set_topology(n, p.topology) \o reply(msg, TopologyOk, id)
          [] p.type = "read" -> reply(msg, ReadOk(n.seen), id)
          [] p.type = "broadcast" ->
                reply(msg, BroadcastOk, id) \o flood(n, p.message, ord, id + 1)

\* A match whose Read arm answers with a new, empty ReadData.
dispatch_read_default(n, msg, ord, id) ==
    LET p == msg.payload
    IN  CASE p.type = "absent" -> <<>>
          [] p.type \in {"topology_ok", "broadcast_ok"} -> <<>>
          [] p.type = "read_ok" ->
                <<Set([n EXCEPT !.seen = seen_extend(n.seen, p.messages)])>>
          [] p.type = "topology" ->
                set_topology(n, p.topology) \o reply(msg, TopologyOk, id)
          [] p.type = "read" -> reply(msg, ReadOk({}), id)
          [] p.type = "broadcast" ->
                reply(msg, BroadcastOk, id) \o flood(n, p.message, ord, id + 1)

\* A match whose Broadcast arm stores and floods the value before it replies.
dispatch_flood_first(n, msg, ord, id) ==
    LET p == msg.payload
    IN  CASE p.type = "absent" -> <<>>
          [] p.type \in {"topology_ok", "broadcast_ok"} -> <<>>
          [] p.type = "read_ok" ->
                <<Set([n EXCEPT !.seen = seen_extend(n.seen, p.messages)])>>
          [] p.type = "topology" ->
                set_topology(n, p.topology) \o reply(msg, TopologyOk, id)
          [] p.type = "read" -> reply(msg, ReadOk(n.seen), id)
          [] p.type = "broadcast" ->
                LET f == flood(n, p.message, ord, id)
                IN  f \o reply(msg, BroadcastOk, id + Cardinality(Writes(f)))

\* The match on the payload in BroadcastNode::handle, n being the state after gossip.
dispatch(n, msg, ord, id) ==
    LET p == msg.payload
    IN  CASE p.type = "absent" -> <<>>
          [] p.type \in {"topology_ok", "broadcast_ok"} -> <<>>
          [] p.type = "read_ok" ->
                <<Set([n EXCEPT !.seen = seen_extend(n.seen, p.messages)])>>
          [] p.type = "topology" ->
                set_topology(n, p.topology) \o reply(msg, TopologyOk, id)
          [] p.type = "read" -> reply(msg, ReadOk(n.seen), id)
          [] p.type = "broadcast" ->
                reply(msg, BroadcastOk, id) \o flood(n, p.message, ord, id + 1)

\* A handle that looks at the timer after it has dealt with the payload.
BroadcastNode_handle_gossip_last(n, msg, t1, t2, ord, id) ==
    LET d  == dispatch(n, msg, ord, id)
        n1 == Exec(d, n, 0).node
    IN  d \o BroadcastNode_gossip(n1, t1, t2, ord, id + Cardinality(Writes(d)))

\* BroadcastNode::handle
BroadcastNode_handle(n, msg, t1, t2, ord, id) ==
    LET g  == BroadcastNode_gossip(n, t1, t2, ord, id)
        n1 == Exec(g, n, 0).node
    IN  g \o dispatch(n1, msg, ord, id + Cardinality(Writes(g)))

----------------------------------------------------------------------------
(* Input lines *)

NoLine == Message("", "", None, None, [type |-> "nothing"])
NoNode == [id |-> ""]

Line(src, id, payload) == Message(src, Self, id, None, payload)

InitLines ==
    {Line(Client, id, InitData(Self, <<"n1", "n2", "n3">>)) : id \in {None, Some(1)}}

\* Lines that no payload type of a service accepts after the init line.
OtherLines == {Line(Client, Some(1), InitOk), Line(Client, Some(1), Malformed)}

EchoLines ==
    {Line(Client, id, Echo("hello")) : id \in MsgIds}
    \cup {Line(Client, Some(1), EchoOk("hello"))}

TopologyMaps ==
    {[n \in {Self} |-> S] : S \in SUBSET Peers} \cup {[n \in {"n3"} |-> {Self}]}

\* Requests carry an id or none; a client sends topologies, broadcasts and
\* reads, a peer sends broadcasts, reads and the replies to this node's messages.
BroadcastLines ==
    {Line(Client, id, p) : id \in {None, Some(1)},
                           p \in {Topology(f) : f \in TopologyMaps}
                                 \cup {Broadcast(v) : v \in Values} \cup {Read}}
    \cup {Line("n2", id, p) : id \in {None, Some(1)},
                              p \in {Broadcast(v) : v \in Values} \cup {Read}}
    \cup {Line("n2", Some(1), p) :
              p \in {ReadOk(S) : S \in SUBSET Values}
                    \cup {TopologyOk, BroadcastOk, Absent}}

FirstLines(own) == InitLines \cup OtherLines \cup {CHOOSE l \in own : TRUE}
LaterLines(own) == own \cup OtherLines \cup {CHOOSE l \in InitLines : TRUE}

----------------------------------------------------------------------------
(* The runtimes *)

\* No cluster: the specification of one process leaves these variables alone.
NoCluster ==
    /\ cluster = <<>>
    /\ net = {}
    /\ drops = 0
    /\ lostFwd = {}
    /\ healed = {}
    /\ watch = [on |-> FALSE, fired |-> None]

\* A process that has not read its first line.
ProcessStart ==
    /\ state = "AwaitingInit"
    /\ exit = "running"
    /\ node = NoNode
    /\ now = 0
    /\ next_id = 0
    /\ nlines = 0
    /\ lastIn = NoLine
    /\ lastOut = <<>>
    /\ prev = NoNode
    /\ delivered = {}
    /\ bcount = [v \in Values |-> 0]
    /\ ids = <<>>
    /\ arrived = 0
    /\ rounds = <<>>

Init ==
    /\ service \in Services
    /\ ProcessStart
    /\ NoCluster

\* A handler whose last envelope stays in a buffer when it returns.
Finish_unflushed(line, steps, n0, f, t) ==
    LET r == Exec(steps, n0, f)
        p == line.payload
        counted == r.end = "ok" /\ state = "Ready" /\ service = "broadcast"
    IN  /\ lastIn' = line
        /\ nlines' = nlines + 1
        /\ prev' = n0
        /\ node' = r.node
        /\ lastOut' = r.out
        /\ ids' = ids \o [i \in 1..(Len(r.out) - 1) |-> r.out[i].msg_id]
        /\ next_id' = IF service = "broadcast"
                       THEN next_id + Cardinality({i \in Writes(steps) : f = 0 \/ i <= f})
                       ELSE next_id
        /\ now' = t
        /\ state' = IF r.end = "ok" THEN "Ready" ELSE "Terminated"
        /\ exit' = IF r.end = "ok" THEN "running" ELSE r.end
        /\ delivered' =
              IF counted /\ p.type = "broadcast" THEN delivered \cup {p.message}
              ELSE IF counted /\ p.type = "read_ok" THEN delivered \cup p.messages
              ELSE delivered
        /\ bcount' =
              IF counted /\ p.type = "broadcast" /\ bcount[p.message] < 2
              THEN [bcount EXCEPT ![p.message] = @ + 1]
              ELSE bcount

\* The effect on the process of running steps from service state n0 and
\* stopping at f, t being the time at the end of the run.
Finish(line, steps, n0, f, t) ==
    LET r == Exec(steps, n0, f)
        p == line.payload
        counted == r.end = "ok" /\ state = "Ready" /\ service = "broadcast"
    IN  /\ lastIn' = line
        /\ nlines' = nlines + 1
        /\ prev' = n0
        /\ node' = r.node
        /\ lastOut' = r.out
        /\ ids' = ids \o [i \in 1..Len(r.out) |-> r.out[i].msg_id]
        /\ next_id' = IF service = "broadcast"
                       THEN next_id + Cardinality({i \in Writes(steps) : f = 0 \/ i <= f})
                       ELSE next_id
        /\ now' = t
        /\ state' = IF r.end = "ok" THEN "Ready" ELSE "Terminated"
        /\ exit' = IF r.end = "ok" THEN "running" ELSE r.end
        /\ delivered' =
              IF counted /\ p.type = "broadcast" THEN delivered \cup {p.message}
              ELSE IF counted /\ p.type = "read_ok" THEN delivered \cup p.messages
              ELSE delivered
        /\ bcount' =
              IF counted /\ p.type = "broadcast" /\ bcount[p.message] < 2
              THEN [bcount EXCEPT ![p.message] = @ + 1]
              ELSE bcount

\* A line that is logged and skipped: the process goes on with the next one.
Fatal_skipped(line, t, how) ==
    /\ lastIn' = line
    /\ nlines' = nlines + 1
    /\ now' = t
    /\ lastOut' = <<>>
    /\ prev' = node
    /\ UNCHANGED <<state, exit, node, next_id, delivered, bcount, ids>>

\* A line that stops the process before any handler runs.
Fatal(line, t, how) ==
    /\ lastIn' = line
    /\ nlines' = nlines + 1
    /\ now' = t
    /\ lastOut' = <<>>
    /\ state' = "Terminated"
    /\ exit' = how
    /\ prev' = node
    /\ UNCHANGED <<node, next_id, delivered, bcount, ids>>

\* An init_ok that mixes up the reply's own id and the id it answers.
init_reply_ids_mixed(init_msg) ==
    Message(init_msg.dest, init_msg.src, init_msg.msg_id, Some(0), InitOk)

\* The init_ok envelope that main_loop of src/message.rs builds by hand.
init_reply(init_msg) ==
    Message(init_msg.dest, init_msg.src, Some(0), init_msg.msg_id, InitOk)

\* main_loop of src/message.rs, up to the reply to the init message.
message_main_loop_init(line) ==
    /\ service = "echo" /\ state = "AwaitingInit"
    /\ nlines < MaxLines
    /\ \E d \in Waits :
          /\ now + d <= MaxTime
          /\ arrived' = now + d
          /\ IF ~decode_message(line, InitPayloadTypes)
             THEN Fatal(line, now + d, "error")
             ELSE IF line.payload.type # "init"
             THEN Fatal(line, now + d, "panic")
             ELSE LET n == EchoNode_from_init(line.payload)
                      steps == <<Set(n), Write(init_reply(line))>>
                  IN  \E f \in Stops(steps) : Finish(line, steps, NoNode, f, now + d)
    /\ UNCHANGED <<service, rounds, cvars>>

\* main_loop of src/message.rs: one turn of the loop over the input lines.
message_main_loop_step(line) ==
    /\ service = "echo" /\ state = "Ready"
    /\ nlines < MaxLines
    /\ \E d \in Waits :
          /\ now + d <= MaxTime
          /\ arrived' = now + d
          /\ IF ~decode_message(line, EchoPayloadTypes)
             THEN Fatal(line, now + d, "error")
             ELSE LET steps == EchoNode_step(line)
                  IN  \E f \in Stops(steps) : Finish(line, steps, node, f, now + d)
    /\ UNCHANGED <<service, rounds, cvars>>

\* main_loop of src/node.rs, up to the reply to the init message.
node_main_loop_init(line) ==
    /\ service = "broadcast" /\ state = "AwaitingInit"
    /\ nlines < MaxLines
    /\ \E d \in Waits :
          /\ now + d <= MaxTime
          /\ arrived' = now + d
          /\ IF ~decode_node(line, InitPayloadTypes) \/ line.payload.type # "init"
             THEN Fatal(line, now + d, "panic")
             ELSE LET n == BroadcastNode_from_init(line.payload, now + d)
                      steps == <<Set(n)>> \o reply(line, InitOk, next_id)
                  IN  \E f \in Stops(steps) : Finish(line, steps, NoNode, f, now + d)
    /\ rounds' = IF node' # NoNode THEN <<arrived'>> ELSE rounds
    /\ UNCHANGED <<service, cvars>>

\* main_loop of src/node.rs: one turn of the loop over the input lines.
node_main_loop_step(line) ==
    /\ service = "broadcast" /\ state = "Ready"
    /\ nlines < MaxLines
    /\ \E d \in Waits :
          /\ now + d <= MaxTime
          /\ arrived' = now + d
          /\ IF ~decode_node(line, BroadcastPayloadTypes)
             THEN Fatal(line, now + d, "error")
             ELSE LET t1 == now + d
                      due == ~(node.gossip_timer > t1)
                  IN  \E e \in (IF due THEN Lags ELSE {0}), ord \in Perms(node.topology) :
                         LET steps == BroadcastNode_handle(node, line, t1, t1 + e,
                                                           ord, next_id)
                         IN  /\ t1 + e <= MaxTime
                             /\ \E f \in Stops(steps) :
                                   Finish(line, steps, node, f, t1 + e)
    /\ rounds' = IF \/ \E i \in DOMAIN lastOut' : lastOut'[i].payload = Read
                     \/ node'.gossip_timer # node.gossip_timer
                  THEN Append(rounds, arrived')
                  ELSE rounds
    /\ UNCHANGED <<service, cvars>>

\* The input ends: stdin.lines() is exhausted.  Before the init line this is
\* the panic of expect(), afterwards the loop ends and main_loop returns Ok.
end_of_input ==
    /\ state # "Terminated"
    /\ state' = "Terminated"
    /\ exit' = IF state = "AwaitingInit" THEN "panic" ELSE "ok"
    /\ UNCHANGED <<service, node, now, next_id, nlines, lastIn, lastOut, prev,
                   delivered, bcount, ids, arrived, rounds, cvars>>

Next ==
    \/ \E line \in FirstLines(EchoLines) : message_main_loop_init(line)
    \/ \E line \in LaterLines(EchoLines) : message_main_loop_step(line)
    \/ \E line \in FirstLines(BroadcastLines) : node_main_loop_init(line)
    \/ \E line \in LaterLines(BroadcastLines) : node_main_loop_step(line)
    \/ end_of_input

Spec == Init /\ [][Next]_vars

----------------------------------------------------------------------------
(* A cluster of broadcast processes.  Every process has handled its init   *)
(* line and the Topology line that assigns it its neighbors; its stdout    *)
(* works.  The network may hold an envelope for any time and may lose it.  *)
(* Time is kept relative to the present: when time passes, every           *)
(* gossip_timer moves closer to the present, which is 0.  The identifiers  *)
(* of the envelopes are not tracked: every envelope carries the id 0.      *)
(* An acknowledgement, a ReadOk without a new value and a Broadcast of a   *)
(* value already seen change nothing at the process that receives them     *)
(* beyond the timer check that every line triggers, which client_read      *)
(* covers: they are not kept in flight.                                    *)

CNodes == {"n1", "n2", "n3"}
CValues == {5}
\* How long the writes of one gossip round may take in the cluster.
CLags == {0}
\* How much time passes in one step of the cluster's clock.
CTick == GOSSIP_TIME

\* The neighbor assignments: two nodes that list each other beside a node on
\* its own, a line in which every node lists only its successor, and the
\* complete graph.
Pair == [n \in CNodes |->
            CASE n = "n1" -> {"n2"} [] n = "n2" -> {"n1"} [] n = "n3" -> {}]
OneWay == [n \in CNodes |->
             CASE n = "n1" -> {"n2"} [] n = "n2" -> {"n3"} [] n = "n3" -> {}]
Full == [n \in CNodes |-> CNodes \ {n}]

\* The node n after its init line and the Topology line with assignment graph.
started(n, graph) ==
    LET n0 == BroadcastNode_from_init(InitData(n, <<"n1", "n2", "n3">>), 0)
    IN  Exec(set_topology(n0, graph), n0, 0).node

request(src, dst, payload) == Message(src, dst, Some(0), None, payload)

\* The envelopes that do something at the process that receives them, the
\* processes being in state cl: a Read, a ReadOk with a value the process has
\* not seen, a Broadcast of such a value.
effective(m, cl) ==
    /\ m.dest \in CNodes
    /\ CASE m.payload.type = "read" -> TRUE
         [] m.payload.type = "read_ok" ->
               ~(m.payload.messages \subseteq cl[m.dest].seen)
         [] m.payload.type = "broadcast" -> m.payload.message \notin cl[m.dest].seen
         [] OTHER -> FALSE

\* Every envelope the network can hold.
Envelopes ==
    {m \in {Message(a, b, Some(0), r, p) :
                a \in CNodes, b \in CNodes, r \in {None, Some(0)},
                p \in {Read} \cup {ReadOk(S) : S \in SUBSET CValues}
                      \cup {Broadcast(v) : v \in CValues}} :
        /\ m.payload # ReadOk({}) /\ m.src # m.dest
        /\ (m.in_reply_to # None <=> m.payload.type = "read_ok")}

\* The time since an event, if it happened, after d more milliseconds; times
\* beyond a gossip interval are not told apart.
later(since, d) ==
    {IF t + d > GOSSIP_TIME THEN GOSSIP_TIME + Tick ELSE t + d : t \in since}

\* The timer check of process n fires at the next line it reads.
due(n) == ~(cluster[n].gossip_timer > 0)

\* Process n reads msg and handles it; what it writes to other processes
\* enters the network.
inbound(n, msg) ==
    \E n0 \in {cluster[n]} :
    \E e \in (IF due(n) THEN CLags ELSE {0}), ord \in Perms(n0.topology) :
    \E steps \in {BroadcastNode_handle(n0, msg, 0, e, ord, 0)} :
    \E r \in {Exec(steps, n0, 0)} :
    \E sent \in {{[r.out[i] EXCEPT !.msg_id = Some(0)] : i \in DOMAIN r.out}} :
       /\ cluster' = [cluster EXCEPT ![n] = r.node]
       /\ net' = {m \in (net \ {msg}) \cup sent : effective(m, cluster')}
       /\ healed' = IF /\ msg.payload.type = "read_ok" /\ n \in lostFwd
                        /\ ~(r.node.seen \subseteq n0.seen)
                     THEN healed \cup {n}
                     ELSE healed
       /\ watch' = IF watch.on /\ n = "n3" /\ "n3" \in lostFwd
                    THEN [watch EXCEPT
                            !.fired = IF @ = None /\ due(n) THEN Some(0) ELSE @]
                    ELSE watch
       /\ UNCHANGED <<drops, lostFwd>>

\* The network delivers an envelope.
deliver(m) ==
    /\ m \in net
    /\ inbound(m.dest, m)
    /\ UNCHANGED pvars

\* The network loses an envelope.
drop(m) ==
    /\ m \in net
    /\ drops < MaxDrops
    /\ net' = net \ {m}
    /\ drops' = drops + 1
    /\ lostFwd' = IF m.payload.type = "broadcast" THEN lostFwd \cup {m.dest} ELSE lostFwd
    /\ UNCHANGED <<cluster, healed, watch, pvars>>

\* A client sends a Read to a process (the reply leaves the cluster).
client_read(n) ==
    /\ \E msg \in {request(Client, n, Read)} : inbound(n, msg)
    /\ UNCHANGED pvars

\* A client sends a Broadcast to a process.
client_broadcast(n, v) ==
    /\ \E msg \in {request(Client, n, Broadcast(v))} : inbound(n, msg)
    /\ UNCHANGED pvars

\* Time passes, and a process whose timer has run out gossips by itself.
time_passes_gossiping ==
    /\ cluster' = [n \in CNodes |->
                      [cluster[n] EXCEPT !.gossip_timer =
                          IF @ > CTick THEN @ - CTick ELSE IF @ > 0 THEN 0 ELSE GOSSIP_TIME]]
    /\ net' = net \cup {m \in {request(n, p, Read) : n \in CNodes, p \in CNodes} :
                            due(m.src) /\ m.dest \in cluster[m.src].topology}
    /\ watch' = [watch EXCEPT !.fired = later(@, CTick)]
    /\ UNCHANGED <<drops, lostFwd, healed, pvars>>

\* Time passes.
time_passes ==
    /\ cluster' = [n \in CNodes |->
                      [cluster[n] EXCEPT !.gossip_timer = IF @ > CTick THEN @ - CTick ELSE 0]]
    /\ watch' = [watch EXCEPT !.fired = later(@, CTick)]
    /\ UNCHANGED <<net, drops, lostFwd, healed, pvars>>

ProcessIdle == service = "broadcast" /\ ProcessStart

ClusterInit(graphs, watching) ==
    /\ ProcessIdle
    /\ \E graph \in graphs : cluster = [n \in CNodes |-> started(n, graph)]
    /\ net = {}
    /\ drops = 0
    /\ lostFwd = {}
    /\ healed = {}
    /\ watch = [on |-> watching, fired |-> None]

LiveInit == ClusterInit({Pair, OneWay}, FALSE)

LiveNext ==
    \/ \E m \in Envelopes : deliver(m)
    \/ \E m \in Envelopes : drop(m)
    \/ \E n \in CNodes : client_read(n)
    \/ \E n \in CNodes, v \in CValues : client_broadcast(n, v)
    \/ time_passes

\* Time passes, a process whose timer check is due receives a line, and an
\* envelope that the network does not lose is delivered in the end.
Fairness ==
    /\ WF_vars(time_passes)
    /\ \A n \in CNodes : WF_vars(client_read(n))
    /\ \A m \in Envelopes : WF_vars(deliver(m))

LiveSpec == LiveInit /\ [][LiveNext]_vars /\ Fairness

\* The convergence scenario: three fully connected nodes, a client that
\* broadcasts 5 to n1, and a network that loses nothing but the Broadcast
\* that n1 forwards to n3.
ScenarioInit == ClusterInit({Full}, TRUE)

ScenarioNext ==
    \/ client_broadcast("n1", 5)
    \/ drop(request("n1", "n3", Broadcast(5)))
    \/ \E m \in Envelopes : deliver(m)
    \/ \E n \in CNodes : client_read(n)
    \/ time_passes

ScenarioSpec == ScenarioInit /\ [][ScenarioNext]_vars

----------------------------------------------------------------------------
(* Properties of one process *)

\* The handler of the line read last returned Ok.
Completed == state # "AwaitingInit" /\ exit \in {"running", "ok"}
\* ... and that line was handled by the service, not by the init handshake.
Handled == Completed /\ nlines >= 2
HandledBy(s) == Handled /\ service = s

Replies == {"init_ok", "echo_ok", "read_ok", "topology_ok", "broadcast_ok"}

\* The positions of lastOut that hold payload p addressed to dst.
Sent(p, dst) == {i \in DOMAIN lastOut : lastOut[i].payload = p /\ lastOut[i].dest = dst}
\* The positions of lastOut that hold a payload of one of the types.
OfType(types) == {i \in DOMAIN lastOut : lastOut[i].payload.type \in types}

\* C1: as long as a broadcast process runs, its SeenSet is exactly the set of
\* the values carried by the Broadcast lines and the ReadOk lines it has
\* handled since init: nothing missing, nothing extra.
C1_SeenIsDelivered ==
    (service = "broadcast" /\ Completed) => node.seen = delivered

\* A ReadOk merged a value that no Broadcast carried into a set that held a
\* value delivered by a Broadcast.
C1_Witness ==
    /\ HandledBy("broadcast")
    /\ lastIn.payload = ReadOk({7})
    /\ bcount[5] = 1 /\ bcount[7] = 0
    /\ node.seen = {5, 7}

\* C2: a second delivery of Broadcast{v} leaves the SeenSet as the first
\* delivery left it and forwards nothing; every delivery is answered with
\* exactly one BroadcastOk to its sender; a first delivery of a value that is
\* new to the node forwards Broadcast{v} once to every neighbor.
C2_BroadcastIdempotent ==
    (HandledBy("broadcast") /\ lastIn.payload.type = "broadcast") =>
        LET v == lastIn.payload.message
        IN  /\ Cardinality(Sent(BroadcastOk, lastIn.src)) = 1
            /\ OfType({"broadcast_ok"}) = Sent(BroadcastOk, lastIn.src)
            /\ bcount[v] = 2 =>
                  /\ node.seen = prev.seen
                  /\ OfType({"broadcast"}) = {}
            /\ (bcount[v] = 1 /\ v \notin prev.seen) =>
                  /\ node.seen = prev.seen \cup {v}
                  /\ \A n \in node.topology : Cardinality(Sent(Broadcast(v), n)) = 1
                  /\ Cardinality(OfType({"broadcast"})) = Cardinality(node.topology)

\* The second delivery of Broadcast{5} to a node with two neighbors: one
\* BroadcastOk and nothing else is written.
C2_Witness ==
    /\ HandledBy("broadcast")
    /\ lastIn.payload = Broadcast(5)
    /\ bcount[5] = 2
    /\ node.topology = Peers
    /\ node.seen = {5}
    /\ Len(lastOut) = 1 /\ lastOut[1].payload = BroadcastOk

\* C5: every reply written while a request with src A, dst B and msg_id M is
\* handled has src B, dst A and in_reply_to M.
C5_ReplyCorrelation ==
    (nlines >= 1 /\ lastIn.msg_id # None) =>
        \A i \in OfType(Replies) :
            /\ lastOut[i].src = lastIn.dest
            /\ lastOut[i].dest = lastIn.src
            /\ lastOut[i].in_reply_to = lastIn.msg_id

\* The echo service answered the request 2 of c1 to n1.
C5_Witness ==
    /\ HandledBy("echo")
    /\ lastIn = Line(Client, Some(2), Echo("hello"))
    /\ Len(lastOut) = 1
    /\ lastOut[1].payload = EchoOk("hello")
    /\ lastOut[1].src = Self /\ lastOut[1].dest = Client
    /\ lastOut[1].in_reply_to = Some(2)

\* C6: nothing is written and no line is handled before the init line; when
\* the first line is an init message with msg_id M from C to N, handling it
\* writes exactly one envelope, an init_ok with src N, dest C and in_reply_to
\* M, which is the first envelope the process ever writes.
C6_InitOkFirst ==
    /\ state = "AwaitingInit" => (ids = <<>> /\ nlines = 0 /\ lastOut = <<>>)
    /\ (nlines = 1 /\ Completed /\ lastIn.msg_id # None) =>
          /\ lastIn.payload.type = "init"
          /\ Len(lastOut) = 1 /\ Len(ids) = 1
          /\ lastOut[1].payload = InitOk
          /\ lastOut[1].src = lastIn.payload.node_id
          /\ lastOut[1].src = lastIn.dest
          /\ lastOut[1].dest = lastIn.src
          /\ lastOut[1].in_reply_to = lastIn.msg_id
    /\ (nlines >= 1 /\ Completed) => Len(ids) >= 1

\* The init message 1 of c1 was answered by the runtime of src/message.rs.
C6_Witness ==
    /\ service = "echo" /\ state = "Ready" /\ nlines = 1
    /\ lastIn.payload.type = "init" /\ lastIn.msg_id = Some(1)
    /\ lastOut = <<Message(Self, Client, Some(0), Some(1), InitOk)>>

\* C7: a Topology message whose assignment contains the node replaces the
\* NeighborSet by exactly the listed set; one that does not contain it leaves
\* the NeighborSet unchanged; in both cases exactly one TopologyOk is written,
\* to the sender, and the SeenSet is untouched.
C7_TopologyReplaced ==
    (HandledBy("broadcast") /\ lastIn.payload.type = "topology") =>
        LET t == lastIn.payload.topology
        IN  /\ node.id \in DOMAIN t => node.topology = t[node.id]
            /\ node.id \notin DOMAIN t => node.topology = prev.topology
            /\ Cardinality(Sent(TopologyOk, lastIn.src)) = 1
            /\ OfType(Replies) = Sent(TopologyOk, lastIn.src)
            /\ node.seen = prev.seen

\* A NeighborSet {n2, n3} was replaced by {n2}: n3 is gone.
C7_Witness ==
    /\ HandledBy("broadcast")
    /\ lastIn.payload = Topology([n \in {Self} |-> {"n2"}])
    /\ prev.topology = Peers
    /\ node.topology = {"n2"}
    /\ Cardinality(Sent(TopologyOk, Client)) = 1

\* C8: no envelope a broadcast node writes forwards a value that was in its
\* SeenSet before the line was handled, however the value got there; the
\* SeenSet never loses a value, so a value is flooded at most once; and every
\* Broadcast that is handled, duplicate or not, is acknowledged.
C8_NoReflood ==
    (service = "broadcast" /\ nlines >= 2) =>
        /\ \A i \in OfType({"broadcast"}) : lastOut[i].payload.message \notin prev.seen
        /\ prev.seen \subseteq node.seen
        /\ (Completed /\ lastIn.payload.type = "broadcast") =>
              Sent(BroadcastOk, lastIn.src) # {}

\* The first Broadcast{7} reaches a node with neighbors that already merged 7
\* from a ReadOk: it is acknowledged and not forwarded.
C8_Witness ==
    /\ HandledBy("broadcast")
    /\ lastIn.payload = Broadcast(7)
    /\ bcount[7] = 1
    /\ 7 \in prev.seen
    /\ prev.topology # {}
    /\ OfType({"broadcast"}) = {}
    /\ Sent(BroadcastOk, lastIn.src) # {}

\* C9: the msg_id values of the envelopes a process writes are strictly
\* increasing (so pairwise distinct) in the order of writing, whatever msg_id
\* the requests carry.
C9_IdsFreshIncreasing ==
    \A i, j \in DOMAIN ids :
        i < j => \A a \in ids[i], b \in ids[j] : a < b

\* C10: a request of the service that carries no msg_id and asks for a reply
\* ends the process with an error, and no reply to it is written.
C10_ReplyWithoutIdFatal ==
    (nlines >= 2 /\ lastIn.msg_id = None
       /\ lastIn.payload.type \in
              (IF service = "echo" THEN {"echo"} ELSE {"read", "topology", "broadcast"})) =>
        /\ state = "Terminated" /\ exit \in {"error", "panic"}
        /\ OfType(Replies) = {}

\* C11: a first line that is not an init message (another payload kind, or a
\* line that does not decode) ends the process with a failure: no service
\* exists, nothing was written, and from then on no line is read and the
\* process is never Ready.
C11_BadFirstLineFatal ==
    /\ [](((nlines = 1 /\ lastIn.payload.type # "init")) =>
             /\ state = "Terminated" /\ exit \in {"error", "panic"}
             /\ node = NoNode
             /\ ids = <<>> /\ lastOut = <<>>)
    /\ [][(nlines = 1 /\ lastIn.payload.type # "init") =>
             UNCHANGED <<nlines, lastIn, state, node, ids, lastOut>>]_vars

\* The first line of a broadcast process was an init_ok: the process panicked.
C11_Witness ==
    /\ service = "broadcast" /\ nlines = 1
    /\ lastIn.payload = InitOk
    /\ state = "Terminated" /\ exit = "panic"
    /\ node = NoNode /\ ids = <<>>

\* The payload tags that do not decode as a payload of the running service.
Undecodable == InitPayloadTypes \cup {"malformed"}

\* C12: once Ready, a line that does not decode as a payload of the service
\* (a second init among them) ends the process with an error before anything
\* is written for it; a failure of the handler ends it as well; a finished
\* process reads and writes nothing more; and the end of the input ends a
\* Ready process cleanly.
C12_ReadyFailureFatal ==
    /\ []((nlines >= 2 /\ lastIn.payload.type \in Undecodable) =>
             /\ state = "Terminated" /\ exit = "error"
             /\ lastOut = <<>> /\ node = prev)
    /\ [](exit \in {"error", "panic"} => state = "Terminated")
    /\ [][state = "Terminated" =>
             UNCHANGED <<state, exit, nlines, lastIn, lastOut, ids, node>>]_vars
    /\ [][(state = "Ready" /\ state' = "Terminated" /\ nlines' = nlines) =>
             (exit' = "ok" /\ UNCHANGED <<ids, lastOut, node>>)]_vars

\* A second init line ended a Ready process that had written its init_ok.
C12_Witness ==
    /\ nlines = 2 /\ lastIn.payload.type = "init"
    /\ state = "Terminated" /\ exit = "error"
    /\ Len(ids) = 1 /\ lastOut = <<>>

\* C13: the envelopes written for a line are all written before the next
\* line is read: the envelopes of the line read last are the end of what the
\* process has written, in the order the handler wrote them; a step that
\* reads no line writes nothing; lines are read one by one.
C13_OneLineAtATime ==
    /\ [](/\ Len(lastOut) <= Len(ids)
          /\ \A i \in DOMAIN lastOut :
                ids[Len(ids) - Len(lastOut) + i] = lastOut[i].msg_id)
    /\ [][nlines' = nlines => ids' = ids]_vars
    /\ [][nlines' # nlines =>
             /\ nlines' = nlines + 1
             /\ ids' = ids \o [i \in 1..Len(lastOut') |-> lastOut'[i].msg_id]]_vars

\* A Broadcast line made a broadcast node with a neighbor write a gossip Read,
\* the BroadcastOk and a forward, after the envelopes of earlier lines.
C13_Witness ==
    /\ HandledBy("broadcast")
    /\ lastIn.payload.type = "broadcast"
    /\ OfType({"read"}) # {} /\ OfType({"broadcast_ok"}) # {} /\ OfType({"broadcast"}) # {}
    /\ Len(ids) > Len(lastOut) + 1

\* The timer check of the line read last was due when the line was read.
WasDue == ~(prev.gossip_timer > arrived)

\* C14: whatever payload a line carries that the broadcast node handles, if
\* the timer was due when the line was read (nextFire <= the clock), one Read
\* went to every member of the NeighborSet as it was before the line and
\* nextFire is the clock, as it stands after these writes, plus GOSSIP_TIME;
\* if it was not due, no Read was written and nextFire is unchanged.  The
\* Reads precede everything else written for the line.
C14_GossipAtTopOfHandle ==
    HandledBy("broadcast") =>
        /\ WasDue =>
              /\ \A n \in prev.topology : Cardinality(Sent(Read, n)) = 1
              /\ Cardinality(OfType({"read"})) = Cardinality(prev.topology)
              /\ node.gossip_timer = now + GOSSIP_TIME
              /\ now >= arrived
        /\ ~WasDue =>
              /\ OfType({"read"}) = {}
              /\ node.gossip_timer = prev.gossip_timer
        /\ \A i \in OfType({"read"}), j \in DOMAIN lastOut \ OfType({"read"}) : i < j

\* A Topology line arrived with the timer due at a node with two neighbors:
\* both got a Read before the TopologyOk was written, and the timer was set
\* after the writes had taken their time.
C14_Witness ==
    /\ HandledBy("broadcast")
    /\ lastIn.payload.type = "topology"
    /\ WasDue /\ prev.topology = Peers
    /\ Len(lastOut) = 3
    /\ lastOut[1].payload = Read /\ lastOut[2].payload = Read
    /\ lastOut[3].payload = TopologyOk
    /\ now > arrived

\* C15: the node is created with nextFire = the time of its creation plus
\* GOSSIP_TIME; after a gossip round nextFire is at least the time of that
\* round plus GOSSIP_TIME (the clock is read again after the Reads are
\* written); so the first round is at least GOSSIP_TIME after the creation
\* and any two consecutive rounds are at least GOSSIP_TIME apart.
C15_RoundsAnIntervalApart ==
    service = "broadcast" =>
        /\ (nlines = 1 /\ Completed) =>
              node.gossip_timer = arrived + GOSSIP_TIME /\ rounds = <<arrived>>
        /\ (Handled /\ OfType({"read"}) # {}) =>
              /\ rounds[Len(rounds)] = arrived
              /\ node.gossip_timer = now + GOSSIP_TIME
              /\ node.gossip_timer >= arrived + GOSSIP_TIME
        /\ \A i \in DOMAIN rounds :
              i > 1 => rounds[i] >= rounds[i - 1] + GOSSIP_TIME

\* The node gossiped twice: exactly one interval after it was created and
\* exactly one interval after that.
C15_Witness ==
    /\ HandledBy("broadcast")
    /\ Len(rounds) = 3
    /\ rounds[2] = rounds[1] + GOSSIP_TIME
    /\ rounds[3] = rounds[2] + GOSSIP_TIME
    /\ OfType({"read"}) # {}

\* C17: while a Broadcast{v} is handled, the BroadcastOk to the sender is
\* written before the value is stored and before any Broadcast is forwarded,
\* whether v is new or not; when the handler returns and v was new, v is in
\* the SeenSet and exactly one new envelope Broadcast{v} (src this node, no
\* in_reply_to) went to every neighbor, the sender included if it is one;
\* when v was not new nothing is forwarded.
C17_AckThenFlood ==
    (service = "broadcast" /\ nlines >= 2 /\ lastIn.payload.type = "broadcast") =>
        LET v    == lastIn.payload.message
            acks == Sent(BroadcastOk, lastIn.src)
            fwd  == OfType({"broadcast"})
        IN  /\ \A i \in fwd : \E a \in acks : a < i
            /\ node.seen # prev.seen => acks # {}
            /\ Completed =>
                  /\ Cardinality(acks) = 1
                  /\ \A a \in acks : lastOut[a].src = node.id
                  /\ v \notin prev.seen =>
                        /\ node.seen = prev.seen \cup {v}
                        /\ \A i \in fwd :
                               /\ lastOut[i].src = node.id
                               /\ lastOut[i].in_reply_to = None
                               /\ lastOut[i].payload = Broadcast(v)
                               /\ lastOut[i].dest \in prev.topology
                        /\ \A n \in prev.topology :
                               Cardinality({i \in fwd : lastOut[i].dest = n}) = 1
                  /\ v \in prev.seen => (fwd = {} /\ node.seen = prev.seen)

\* n2, a neighbor, delivered a new value: the BroadcastOk to n2 comes first,
\* then one Broadcast to each of the two neighbors, n2 among them.
C17_Witness ==
    /\ HandledBy("broadcast")
    /\ lastIn = Line("n2", Some(1), Broadcast(5))
    /\ prev.topology = Peers /\ prev.seen = {}
    /\ node.seen = {5}
    /\ Len(lastOut) = 3
    /\ lastOut[1].payload = BroadcastOk /\ lastOut[1].dest = "n2"
    /\ Sent(Broadcast(5), "n2") # {} /\ Sent(Broadcast(5), "n3") # {}

\* C18: handling a Read changes neither the SeenSet nor the NeighborSet;
\* every ReadOk written goes to the sender and carries exactly the SeenSet
\* the node has while it handles the Read; when the handler returns, one
\* ReadOk was written and no other reply and no Broadcast.  (The envelope is
\* on stdout when the handler returns, so nothing the node does later can
\* reach it.)
C18_ReadSnapshot ==
    (service = "broadcast" /\ nlines >= 2 /\ lastIn.payload.type = "read") =>
        /\ node.seen = prev.seen
        /\ node.topology = prev.topology
        /\ \A i \in OfType({"read_ok"}) :
               /\ lastOut[i].payload = ReadOk(prev.seen)
               /\ lastOut[i].dest = lastIn.src
        /\ Completed =>
               /\ Cardinality(OfType({"read_ok"})) = 1
               /\ OfType(Replies) = OfType({"read_ok"})
               /\ OfType({"broadcast"}) = {}

\* A node that has seen 5 and 7 answered the Read of n2 with both values,
\* after the two Reads of a gossip round.
C18_Witness ==
    /\ HandledBy("broadcast")
    /\ lastIn = Line("n2", Some(1), Read)
    /\ prev.seen = {5, 7} /\ node.seen = {5, 7}
    /\ Len(lastOut) = 3
    /\ lastOut[3].payload = ReadOk({5, 7}) /\ lastOut[3].dest = "n2"
    /\ lastOut[1].payload = Read /\ lastOut[2].payload = Read

\* C19: handling a ReadOk{values} writes no reply and no Broadcast, only the
\* Reads of a gossip round that was due; it leaves the node's id and
\* NeighborSet alone, moves the timer only in such a round and removes
\* nothing from the SeenSet; when the handler returns, the SeenSet is the old
\* one united with values.
C19_ReadOkMerges ==
    (service = "broadcast" /\ nlines >= 2 /\ lastIn.payload.type = "read_ok") =>
        /\ \A i \in DOMAIN lastOut : lastOut[i].payload = Read
        /\ lastOut # <<>> => WasDue
        /\ node.id = prev.id
        /\ node.topology = prev.topology
        /\ node.gossip_timer # prev.gossip_timer => WasDue
        /\ prev.seen \subseteq node.seen
        /\ node.seen \subseteq prev.seen \cup lastIn.payload.messages
        /\ Completed => node.seen = prev.seen \cup lastIn.payload.messages

\* ReadOk{7} reached a node with neighbors that had seen 5 and whose timer
\* was not due: it has seen 5 and 7 now and has written nothing.
C19_Witness ==
    /\ HandledBy("broadcast")
    /\ lastIn.payload = ReadOk({7})
    /\ prev.seen = {5} /\ node.seen = {5, 7}
    /\ prev.topology # {} /\ node.topology = prev.topology
    /\ ~WasDue /\ node.gossip_timer = prev.gossip_timer
    /\ lastOut = <<>>

\* C20: handling a TopologyOk or a BroadcastOk changes neither the SeenSet
\* nor the NeighborSet and writes no reply, only the Reads of a gossip round
\* that was due; the node holds nothing but its id, its neighbors, the values
\* seen and the timer; and a Broadcast{v} is written only while a Broadcast{v}
\* with a v new to the node is handled, never for an acknowledgment that
\* came or failed to come.
C20_AcksIgnored ==
    (service = "broadcast" /\ nlines >= 2) =>
        /\ lastIn.payload.type \in {"topology_ok", "broadcast_ok"} =>
              /\ node.seen = prev.seen
              /\ node.topology = prev.topology
              /\ \A i \in DOMAIN lastOut : lastOut[i].payload = Read
              /\ lastOut # <<>> => WasDue
        /\ DOMAIN node = {"id", "topology", "seen", "gossip_timer"}
        /\ \A i \in OfType({"broadcast"}) :
              /\ lastIn.payload = lastOut[i].payload
              /\ lastOut[i].payload.message \notin prev.seen

\* The BroadcastOk of n2 reached a node that has neighbors and has seen 5:
\* nothing changed and nothing was written.
C20_Witness ==
    /\ HandledBy("broadcast")
    /\ lastIn = Line("n2", Some(1), BroadcastOk)
    /\ "n2" \in node.topology
    /\ node.seen = {5} /\ prev.seen = {5}
    /\ node.topology = prev.topology
    /\ lastOut = <<>>

\* C21: a broadcast node has no neighbors when the init line has been
\* handled, whatever nodes that line lists, and its NeighborSet changes only
\* while a Topology message that contains its id is handled; a line handled
\* while the NeighborSet is empty writes no Read and no Broadcast: a new
\* Broadcast{v} is acknowledged and stored, and a gossip round that is due
\* only arms the timer anew.
C21_NoNeighborsBeforeTopology ==
    /\ []((service = "broadcast" /\ nlines = 1 /\ Completed) =>
             (node.topology = {} /\ Len(lastIn.payload.node_ids) > 1))
    /\ [][(service = "broadcast" /\ nlines >= 1 /\ Completed
              /\ node'.topology # node.topology) =>
             /\ lastIn'.payload.type = "topology"
             /\ node.id \in DOMAIN lastIn'.payload.topology]_vars
    /\ []((HandledBy("broadcast") /\ prev.topology = {}) =>
             /\ OfType({"read", "broadcast"}) = {}
             /\ WasDue => node.gossip_timer = now + GOSSIP_TIME
             /\ (lastIn.payload.type = "broadcast"
                   /\ lastIn.payload.message \notin prev.seen) =>
                    /\ Len(lastOut) = 1
                    /\ lastOut[1].payload = BroadcastOk
                    /\ lastOut[1].dest = lastIn.src
                    /\ node.seen = prev.seen \cup {lastIn.payload.message})

\* A node that has handled no Topology with its id got a new Broadcast{5}
\* from n2, which its init line lists, when its timer was due: one
\* BroadcastOk, the value stored, the timer armed anew, nothing else written.
C21_Witness ==
    /\ HandledBy("broadcast")
    /\ nlines = 3
    /\ lastIn = Line("n2", Some(1), Broadcast(5))
    /\ prev.topology = {} /\ prev.seen = {} /\ node.topology = {}
    /\ WasDue
    /\ node.gossip_timer = now + GOSSIP_TIME
    /\ node.gossip_timer > prev.gossip_timer
    /\ node.seen = {5}
    /\ Len(lastOut) = 1 /\ lastOut[1].payload = BroadcastOk

----------------------------------------------------------------------------
(* Properties of a cluster *)

\* The lines a process of the cluster can read: an envelope of the network
\* addressed to it or a request of a client.
LinesFor(n) ==
    {m \in net : m.dest = n}
        \cup {request(Client, n, p) : p \in {Read} \cup {Broadcast(v) : v \in CValues}}

Neighbors == [n \in CNodes |-> cluster[n].topology]

\* The pairs <<a, b>> with b reachable from a along the edges of graph.
RECURSIVE Paths(_, _)
Paths(graph, k) ==
    IF k = 0
    THEN {<<a, a>> : a \in CNodes}
    ELSE LET P == Paths(graph, k - 1)
         IN  P \cup {<<a, c>> \in CNodes \X CNodes :
                        \E b \in CNodes : <<a, b>> \in P /\ c \in graph[b]}

Reachable(a, b) == <<a, b>> \in Paths(Neighbors, Cardinality(CNodes))

\* C3 as stated: a value that some node has seen (a client may broadcast it to
\* that node at any time) is eventually in the SeenSet of every node reachable
\* from that node along the NeighborSets, the network losing envelopes but
\* not for ever, every node receiving lines again and again.
C3_ReachableEventuallySeen ==
    \A b \in CNodes, v \in CValues :
        (\E a \in CNodes : v \in cluster[a].seen /\ Reachable(a, b))
            ~> (v \in cluster[b].seen)

\* C3 amended: the value is eventually in the SeenSet of every node from which
\* that node is reachable along the NeighborSets, that is of every node that
\* asks it, directly or through others, in its gossip rounds.
C3_AskingEventuallySeen ==
    \A b \in CNodes, v \in CValues :
        (\E a \in CNodes : v \in cluster[a].seen /\ Reachable(b, a))
            ~> (v \in cluster[b].seen)

\* The forwarded Broadcast to a node was lost and a ReadOk brought the value.
C3_Witness ==
    \E n \in healed : n \in lostFwd /\ CValues \subseteq cluster[n].seen

\* C4 as stated: in the scenario, once the forwarded Broadcast to n3 is lost,
\* 5 is in n3's SeenSet within one gossip interval of the line that n3 read
\* with its timer check due.
C4_ConvergedWithinInterval ==
    \A t \in watch.fired : t > GOSSIP_TIME => 5 \in cluster["n3"].seen

\* C4 amended: from that line on, n3 lacks 5 only while its Read to n1 or the
\* ReadOk that n1 answers with is in flight; no interval bounds that time.
C4_ConvergedAfterRoundTrip ==
    watch.fired # None =>
        \/ 5 \in cluster["n3"].seen
        \/ request("n3", "n1", Read) \in net
        \/ Message("n1", "n3", Some(0), Some(0), ReadOk({5})) \in net

\* n3 lost the forwarded Broadcast, gossiped, and got 5 from a ReadOk.
C4_Witness ==
    /\ watch.fired # None
    /\ "n3" \in healed
    /\ 5 \in cluster["n3"].seen
====
